---- MODULE Spec2Model ----
(***************************************************************************)
(* react-zod-safe-action: the action builder (SafeAction /                 *)
(* ReactSafeAction) and the useAction hook (status cell, execute, reset).  *)
(*                                                                         *)
(* JavaScript values are records [tag, msg, own, issues]:                  *)
(*   tag    : "undefined" | "null" | "string" | "object" | "Error" |       *)
(*            "ZodError"                                                   *)
(*   msg    : the non-enumerable `message` of an Error (NoMsg otherwise;   *)
(*            for a string value, the string itself)                       *)
(*   own    : the own enumerable properties, a set of <<key, value>>       *)
(*            (for a string value, its indexed characters)                 *)
(*   issues : the issues of a ZodError, a sequence of [path, message]      *)
(* A plain map (errors.validation) is a set of <<key, value>> pairs with   *)
(* at most one pair per key.                                               *)
(***************************************************************************)
EXTENDS Integers, Sequences, FiniteSets, TLC

\* ------------------------------------------------------------------ bounds
MaxCalls == 2
MaxBuilders == 3
MaxBuilt == 2

Calls == 1..MaxCalls

\* ------------------------------------------------------------- JS values
NoMsg == "<undefined>"

Val(tag, msg, own, issues) ==
  [tag |-> tag, msg |-> msg, own |-> own, issues |-> issues]

Undefined == Val("undefined", NoMsg, {}, <<>>)
Null == Val("null", NoMsg, {}, <<>>)
Str(s, chars) == Val("string", s, chars, <<>>)
Obj(own) == Val("object", NoMsg, own, <<>>)
Err(m, own) == Val("Error", m, own, <<>>)
ZodError(issues) == Val("ZodError", "zod", {}, issues)
EmptyObject == Obj({})

\* No value at all (nothing was thrown, no argument was passed).
Nothing == Val("<nothing>", NoMsg, {}, <<>>)

\* obj[k] = v on a map
MapPut(m, k, v) == {p \in m : p[1] # k} \cup {<<k, v>>}

MapKeys(m) == {p[1] : p \in m}

\* obj[k], NoMsg standing for undefined
MapGet(m, k) ==
  IF k \in MapKeys(m) THEN (CHOOSE p \in m : p[1] = k)[2] ELSE NoMsg

\* { ...a, ...b }: the properties of b override those of a
MapMerge(a, b) == {p \in a : p[1] \notin MapKeys(b)} \cup b

\* error?.message
GetMessage(v) ==
  CASE v.tag \in {"undefined", "null", "string", "<nothing>"} -> NoMsg
    [] v.tag \in {"Error", "ZodError"} -> v.msg
    [] OTHER -> MapGet(v.own, "message")

\* JavaScript truthiness of a message: undefined and "" are falsy
Truthy(m) == m # NoMsg /\ m # ""

\* { ...v }: the own enumerable properties (none for undefined and null)
Spread(v) == v.own

\* issue.path.join(".")
RECURSIVE Join(_)
Join(path) ==
  IF path = <<>> THEN ""
  ELSE IF Len(path) = 1 THEN path[1]
  ELSE path[1] \o "." \o Join(Tail(path))

\* ------------------------------------------------- errors normalisation
\* error instanceof ZodError && "issues" in error
IsZodError(error) == error.tag = "ZodError"

\* error.issues.map(issue => errors.validation[issue.path.join(".")] = issue.message)
RECURSIVE AssignIssues(_, _)
AssignIssues(validation, issues) ==
  IF issues = <<>> THEN validation
  ELSE AssignIssues(MapPut(validation, Join(Head(issues).path), Head(issues).message),
                    Tail(issues))

\* errors.request = error?.message ? { message: error.message, ...error } : error
RequestOf(error) ==
  IF Truthy(GetMessage(error))
  THEN Obj(MapMerge({<<"message", GetMessage(error)>>}, Spread(error)))
  ELSE error

\* Normalize with the else of the ZodError test dropped: request is
\* filled for every failure
Normalize_NoElse(error) ==
  [request |-> RequestOf(error),
   validation |-> IF IsZodError(error) THEN AssignIssues({}, error.issues) ELSE {}]

\* the catch block up to the onError call: builds `errors`
Normalize(error) ==
  IF IsZodError(error)
  THEN [request |-> EmptyObject, validation |-> AssignIssues({}, error.issues)]
  ELSE [request |-> RequestOf(error), validation |-> {}]

\* ------------------------------------------------------------ contracts
\* The zod schemas an application attaches.  "login" is the README's
\* loginSchema; "signup" nests the same fields under `user` and adds a
\* second rule to password, so one path can carry two issues.
MinPassword == 8

NullSchema == "null"
NoSchemaArg == "undefined"
Schemas == {"login", "signup"}

ValidEmails == {"user@example.com"}
WithDigit == {"password123"}

\* The payloads: the README's login input sent with a key the schemas do
\* not know (extra), and the input both schemas reject.
Inputs ==
  { [email |-> "user@example.com", password |-> "password123", extra |-> TRUE],
    [email |-> "bad", password |-> "short", extra |-> FALSE] }

Issue(path, message) == [path |-> path, message |-> message]

Prefix(schema) == IF schema = "signup" THEN <<"user">> ELSE <<>>

EmailIssues(schema, data) ==
  IF data.email \in ValidEmails THEN <<>>
  ELSE <<Issue(Prefix(schema) \o <<"email">>, "Invalid email")>>

PasswordIssues(schema, data) ==
  (IF Len(data.password) >= MinPassword THEN <<>>
   ELSE <<Issue(Prefix(schema) \o <<"password">>,
                "String must contain at least 8 character(s)")>>)
  \o
  (IF schema = "signup" /\ data.password \notin WithDigit
   THEN <<Issue(Prefix(schema) \o <<"password">>, "Invalid")>>
   ELSE <<>>)

SchemaIssues(schema, data) == EmailIssues(schema, data) \o PasswordIssues(schema, data)

\* z.object(...) strips the keys the schema does not know
Strip(data) == [data EXCEPT !.extra = FALSE]

\* schema.safeParse(data)
SafeParse(schema, data) ==
  IF SchemaIssues(schema, data) = <<>>
  THEN [success |-> TRUE, data |-> Strip(data), error |-> Nothing]
  ELSE [success |-> FALSE, data |-> data,
        error |-> ZodError(SchemaIssues(schema, data))]

\* ------------------------------------------------------------- handlers
\* What the application's handler does in one invocation: it throws
\* synchronously, or it returns a promise that settles later (or never).
Failures ==
  { Err("boom", {<<"code", "E1">>}), Err("", {}),
    Undefined, Null, Str("no", {<<"0", "n">>, <<"1", "o">>}),
    EmptyObject,
    ZodError(<<Issue(<<"a.b">>, "first"), Issue(<<"a", "b">>, "second")>>) }

Outputs == { Obj({<<"success", "true">>}) }

\* the values a handler throws before returning its promise
SyncFailures == { Err("boom", {<<"code", "E1">>}), Undefined }

HandlerBehaviours ==
  {[threw |-> FALSE, error |-> Nothing]}
  \cup {[threw |-> TRUE, error |-> f] : f \in SyncFailures}

Outcomes ==
  {[ok |-> TRUE, val |-> o] : o \in Outputs} \cup {[ok |-> FALSE, val |-> f] : f \in Failures}

\* What a callback does in one invocation: a supplied one returns or
\* throws, possibly after calling reset(); an absent one is skipped by `?.`.
CallbackBehaviours(supplied) ==
  IF supplied THEN {"return", "throw", "reset", "resetThrow"} ELSE {"return"}
Throws(b) == b \in {"throw", "resetThrow"}
Resets(b) == b \in {"reset", "resetThrow"}
CallbackError == Err("callback", {})

\* fn(data): the handler receives arg and behaves as h
CallFn(arg, h) ==
  [invoked |-> <<arg>>, threw |-> h.threw,
   error |-> IF h.threw THEN h.error ELSE Nothing,
   by |-> IF h.threw THEN "handler" ELSE "none"]

\* The handler function itself, as a callable value.
Fn == [kind |-> "fn", this |-> [class |-> "none", _schema |-> NullSchema]]

\* this._schema?.safeParse(data)
SafeParseOpt(schema, data) ==
  IF schema = NullSchema
  THEN [success |-> FALSE, data |-> data, error |-> Undefined]
  ELSE SafeParse(schema, data)

\* --------------------------------------------------------- SafeAction
\* constructor(schema?)
SafeAction_new(schema) ==
  [class |-> "SafeAction",
   _schema |-> IF schema # NoSchemaArg THEN schema ELSE NullSchema]

\* schema(schema)
SafeAction_schema(this, schema) == SafeAction_new(schema)

\* action(fn) without the test of this._schema: always the validating wrapper
SafeAction_action_AlwaysWrap(this, fn) == [kind |-> "wrapper", this |-> this]

\* action(fn)
SafeAction_action(this, fn) ==
  IF this._schema # NullSchema THEN [kind |-> "wrapper", this |-> this] ELSE fn

\* the wrapper without its throw: the handler is called whatever safeParse says
SafeAction_wrapper_NoThrow(this, data, h) == CallFn(data, h)

\* the arrow function action(fn) returns when a schema is attached
SafeAction_wrapper(this, data, h) ==
  LET validationResult == SafeParseOpt(this._schema, data) IN
  IF ~validationResult.success
  THEN [invoked |-> <<>>, threw |-> TRUE, error |-> validationResult.error,
        by |-> "contract"]
  ELSE CallFn(data, h)

\* ---------------------------------------------------- ReactSafeAction
ReactSafeAction_new(schema) ==
  [class |-> "ReactSafeAction",
   _schema |-> IF schema # NoSchemaArg THEN schema ELSE NullSchema]

ReactSafeAction_schema(this, schema) == ReactSafeAction_new(schema)

ReactSafeAction_action(this, fn) ==
  IF this._schema # NullSchema THEN [kind |-> "wrapper", this |-> this] ELSE fn

ReactSafeAction_wrapper(this, data, h) ==
  LET validationResult == SafeParseOpt(this._schema, data) IN
  IF ~validationResult.success
  THEN [invoked |-> <<>>, threw |-> TRUE, error |-> validationResult.error,
        by |-> "contract"]
  ELSE CallFn(data, h)

\* action(payload): calling a built Action
CallAction(a, data, h) ==
  IF a.kind = "wrapper"
  THEN IF a.this.class = "SafeAction"
       THEN SafeAction_wrapper(a.this, data, h)
       ELSE ReactSafeAction_wrapper(a.this, data, h)
  ELSE CallFn(data, h)

\* The Actions the application builds: new C().action(fn), the README's
\* new SafeAction().schema(loginSchema).action(fn), and a ReactSafeAction
\* one with the signup schema
Actions ==
  { SafeAction_action(SafeAction_new(NoSchemaArg), Fn),
    ReactSafeAction_action(ReactSafeAction_new(NoSchemaArg), Fn),
    SafeAction_action(SafeAction_schema(SafeAction_new(NoSchemaArg), "login"), Fn),
    ReactSafeAction_action(
      ReactSafeAction_schema(ReactSafeAction_new(NoSchemaArg), "signup"), Fn) }

\* ----------------------------------------------------------- useAction
\* action    the Action given to useAction
\* callback  which of onSuccess / onError the caller supplied
\* status    the status cell
\* pc        per execute call: "new", "awaiting", "resolved", "rejected"
\* payload   per suspended execute call: its payload
\* wrote     per execute call: the status of its final setStatus, or "none"
\* last      what the most recent step did
\* heap      the builder objects constructed so far; a builder is referred
\*           to by its index
\* born      per builder: the schema it was constructed with
\* built     the Actions built so far, each with the builder (`this`) its
\*           wrapper closes over
\* probe     the most recent direct call of a built Action
VARIABLES action, callback, status, pc, payload, wrote, last,
          heap, born, built, probe

hookVars == <<action, callback, status, pc, payload, wrote, last>>
builderVars == <<heap, born, built, probe>>
vars == <<hookVars, builderVars>>

NoInput == [email |-> "", password |-> "", extra |-> FALSE]

Quiet(op) ==
  [op |-> op, call |-> 0, input |-> NoInput, before |-> "idle", invoked |-> <<>>,
   raised |-> Nothing, raisedBy |-> "none", failure |-> Nothing, settled |-> "none", value |-> Nothing,
   onSuccessArgs |-> <<>>, onErrorArgs |-> <<>>, caught |-> FALSE,
   escaped |-> FALSE, writes |-> <<>>]

\* a status cell that keeps a final status once one is written
setStatus_KeepFinal(cur, next) ==
  IF cur \in {"success", "error"} THEN cur ELSE next

\* a status cell that enters executing only from idle
setStatus_SkipExecuting(cur, next) ==
  IF next = "executing" /\ cur # "idle" THEN cur ELSE next

\* a status cell where executing written over executing clears it
setStatus_ExecutingClears(cur, next) ==
  IF next = "executing" /\ cur = "executing" THEN "idle" ELSE next

\* setStatus(next) on the React state cell
setStatus(cur, next) == next

\* the status after a callback behaving as b ran: reset() sets it to idle
AfterCallback(cur, called, b) ==
  IF called /\ Resets(b) THEN setStatus(cur, "idle") ELSE cur

\* the setStatus calls a callback behaving as b makes
CallbackWrites(called, b) == IF called /\ Resets(b) THEN <<"idle">> ELSE <<>>

\* the catch block handing onError the payload without its unknown keys
Catch_StrippedInput(cur, error, data, cbE) ==
  LET errors == Normalize(error)
      threw == callback.onError /\ Throws(cbE)
      cur2 == AfterCallback(cur, callback.onError, cbE)
  IN [status |-> IF threw THEN cur2 ELSE setStatus(cur2, "error"),
      wrote |-> IF threw THEN "none" ELSE "error",
      onSuccessArgs |-> <<>>,
      onErrorArgs |-> IF callback.onError
                      THEN <<[error |-> errors, input |-> Strip(data)]>> ELSE <<>>,
      error |-> error,
      caught |-> TRUE,
      escaped |-> threw,
      writes |-> CallbackWrites(callback.onError, cbE)
                   \o (IF threw THEN <<>> ELSE <<"error">>)]

\* the catch block: normalise, call onError, set status "error"
Catch(cur, error, data, cbE) ==
  LET errors == Normalize(error)
      threw == callback.onError /\ Throws(cbE)
      cur2 == AfterCallback(cur, callback.onError, cbE)
  IN [status |-> IF threw THEN cur2 ELSE setStatus(cur2, "error"),
      wrote |-> IF threw THEN "none" ELSE "error",
      onSuccessArgs |-> <<>>,
      onErrorArgs |-> IF callback.onError
                      THEN <<[error |-> errors, input |-> data]>> ELSE <<>>,
      error |-> error,
      caught |-> TRUE,
      escaped |-> threw,
      writes |-> CallbackWrites(callback.onError, cbE)
                   \o (IF threw THEN <<>> ELSE <<"error">>)]

\* the try block without its onSuccess call
TryRest_SkipOnSuccess(cur, res, data, cbS, cbE) ==
  [status |-> setStatus(cur, "success"), wrote |-> "success",
   onSuccessArgs |-> <<>>, onErrorArgs |-> <<>>, error |-> Nothing,
   caught |-> FALSE, escaped |-> FALSE, writes |-> <<"success">>]

\* the try block with a throwing onSuccess swallowed: onError not called
TryRest_SwallowThrow(cur, res, data, cbS, cbE) ==
  LET cur2 == AfterCallback(cur, callback.onSuccess, cbS)
  IN [status |-> setStatus(cur2, "success"),
      wrote |-> "success",
      onSuccessArgs |-> IF callback.onSuccess THEN <<res>> ELSE <<>>,
      onErrorArgs |-> <<>>,
      error |-> IF callback.onSuccess /\ Throws(cbS) THEN CallbackError ELSE Nothing,
      caught |-> callback.onSuccess /\ Throws(cbS),
      escaped |-> FALSE,
      writes |-> CallbackWrites(callback.onSuccess, cbS) \o <<"success">>]

\* the rest of the try block once `await action(payload)` has a value
TryRest(cur, res, data, cbS, cbE) ==
  LET cur2 == AfterCallback(cur, callback.onSuccess, cbS)
      k == Catch(cur2, CallbackError, data, cbE)
  IN IF callback.onSuccess /\ Throws(cbS)
     THEN [k EXCEPT !.onSuccessArgs = <<res>>,
                    !.writes = CallbackWrites(callback.onSuccess, cbS) \o k.writes]
     ELSE [status |-> setStatus(cur2, "success"),
           wrote |-> "success",
           onSuccessArgs |-> IF callback.onSuccess THEN <<res>> ELSE <<>>,
           onErrorArgs |-> <<>>,
           error |-> Nothing,
           caught |-> FALSE,
           escaped |-> FALSE,
           writes |-> CallbackWrites(callback.onSuccess, cbS) \o <<"success">>]

\* execute resumed by the settlement o of the awaited promise
Resume(cur, o, data, cbS, cbE) ==
  IF o.ok THEN TryRest(cur, o.val, data, cbS, cbE)
  ELSE Catch(cur, o.val, data, cbE)

\* loading: status === "executing"
loading == status = "executing"

\* the object useAction returns
useActionReturn ==
  [execute |-> "execute", status |-> status, loading |-> loading,
   reset |-> "reset"]

NoProbe ==
  [act |-> 0, input |-> NoInput,
   result |-> [invoked |-> <<>>, threw |-> FALSE, error |-> Nothing, by |-> "none"]]

\* new SafeAction() / new ReactSafeAction(): the base builder, nothing built
InitBuilders(class) ==
  /\ heap = <<IF class = "SafeAction" THEN SafeAction_new(NoSchemaArg)
                                      ELSE ReactSafeAction_new(NoSchemaArg)>>
  /\ born = <<NullSchema>>
  /\ built = <<>>
  /\ probe = NoProbe

\* useAction(action, callback) before any call
InitHook(actions) ==
  /\ action \in actions
  /\ callback \in [onSuccess : BOOLEAN, onError : BOOLEAN]
  /\ status = "idle"
  /\ pc = [c \in Calls |-> "new"]
  /\ payload = [c \in Calls |-> NoInput]
  /\ wrote = [c \in Calls |-> "none"]
  /\ last = Quiet("init")

Init == InitHook(Actions) /\ InitBuilders("SafeAction")

\* execute(payload) up to its first suspension: setStatus("executing"),
\* action(payload), and the whole catch block when the call throws
Execute(c, data, h, cbE) ==
  /\ pc[c] = "new"
  /\ \A d \in Calls : d < c => pc[d] # "new"
  /\ LET s1 == setStatus(status, "executing")
         r == CallAction(action, data, h)
         k == Catch(s1, r.error, data, cbE)
     IN IF r.threw
        THEN /\ status' = k.status
             /\ pc' = [pc EXCEPT ![c] = IF k.escaped THEN "rejected" ELSE "resolved"]
             /\ payload' = payload
             /\ wrote' = [wrote EXCEPT ![c] = k.wrote]
             /\ last' = [Quiet("execute") EXCEPT
                           !.call = c, !.input = data, !.before = status,
                           !.invoked = r.invoked, !.raised = r.error,
                           !.raisedBy = r.by, !.failure = k.error,
                           !.onErrorArgs = k.onErrorArgs,
                           !.caught = TRUE, !.escaped = k.escaped,
                           !.writes = <<"executing">> \o k.writes]
        ELSE /\ status' = s1
             /\ pc' = [pc EXCEPT ![c] = "awaiting"]
             /\ payload' = [payload EXCEPT ![c] = data]
             /\ UNCHANGED wrote
             /\ last' = [Quiet("execute") EXCEPT
                           !.call = c, !.input = data, !.before = status,
                           !.invoked = r.invoked, !.writes = <<"executing">>]
  /\ UNCHANGED <<action, callback, builderVars>>

\* the awaited promise settles with o and execute runs to its end
Settle(c, o, cbS, cbE) ==
  /\ pc[c] = "awaiting"
  /\ LET k == Resume(status, o, payload[c], cbS, cbE)
     IN /\ status' = k.status
        /\ pc' = [pc EXCEPT ![c] = IF k.escaped THEN "rejected" ELSE "resolved"]
        /\ payload' = [payload EXCEPT ![c] = NoInput]
        /\ wrote' = [wrote EXCEPT ![c] = k.wrote]
        /\ last' = [Quiet("settle") EXCEPT
                      !.call = c, !.input = payload[c], !.before = status,
                      !.settled = IF o.ok THEN "resolved" ELSE "rejected",
                      !.value = o.val, !.failure = k.error,
                      !.onSuccessArgs = k.onSuccessArgs,
                      !.onErrorArgs = k.onErrorArgs, !.caught = k.caught,
                      !.escaped = k.escaped, !.writes = k.writes]
  /\ UNCHANGED <<action, callback, builderVars>>

\* reset()
Reset ==
  /\ status' = setStatus(status, "idle")
  /\ last' = [Quiet("reset") EXCEPT !.before = status, !.writes = <<"idle">>]
  /\ UNCHANGED <<action, callback, pc, payload, wrote, builderVars>>

\* The choices are drawn only where the code reaches them: a callback's
\* behaviour where the callback is called.
Next ==
  \/ \E c \in Calls, data \in Inputs, h \in HandlerBehaviours :
       \E cbE \in CallbackBehaviours(callback.onError /\ CallAction(action, data, h).threw) :
         Execute(c, data, h, cbE)
  \/ \E c \in Calls, o \in Outcomes :
       \E cbS \in CallbackBehaviours(callback.onSuccess /\ o.ok) :
         \E cbE \in CallbackBehaviours(callback.onError /\ (~o.ok \/ Throws(cbS))) :
           Settle(c, o, cbS, cbE)
  \/ Reset

Spec == Init /\ [][Next]_vars

TypeOK ==
  /\ status \in {"idle", "executing", "error", "success"}
  /\ pc \in [Calls -> {"new", "awaiting", "resolved", "rejected"}]
  /\ wrote \in [Calls -> {"none", "success", "error"}]

\* ------------------------------------------------- building Actions
\* schema(schema) with the receiver mutated and returned instead of a new
\* builder
Builder_schema_Mutating(h, this, schema) ==
  [heap |-> [h EXCEPT ![this]._schema = schema], ref |-> this]

\* this.schema(schema) on the heap h: the new builder is a new object
Builder_schema(h, this, schema) ==
  [heap |-> Append(h, IF h[this].class = "SafeAction"
                      THEN SafeAction_schema(h[this], schema)
                      ELSE ReactSafeAction_schema(h[this], schema)),
   ref |-> Len(h) + 1]

\* this.action(fn): the built Action and the builder its wrapper closes over
Builder_action(h, this, fn) ==
  [this |-> this,
   action |-> IF h[this].class = "SafeAction"
              THEN SafeAction_action(h[this], fn)
              ELSE ReactSafeAction_action(h[this], fn)]

\* calling a built Action: the wrapper reads this._schema when it is called
Built_call(h, b, data, hb) ==
  IF b.action.kind = "wrapper"
  THEN CallAction([b.action EXCEPT !.this = h[b.this]], data, hb)
  ELSE CallAction(b.action, data, hb)

\* builder.schema(s)
DeriveSchema(i, s) ==
  /\ Len(heap) < MaxBuilders
  /\ i \in 1..Len(heap)
  /\ LET r == Builder_schema(heap, i, s)
     IN /\ heap' = r.heap
        /\ born' = IF r.ref > Len(born) THEN Append(born, s) ELSE born
  /\ UNCHANGED <<hookVars, built, probe>>

\* builder.action(fn)
BuildAction(i) ==
  /\ Len(built) < MaxBuilt
  /\ i \in 1..Len(heap)
  /\ built' = Append(built, Builder_action(heap, i, Fn))
  /\ UNCHANGED <<hookVars, heap, born, probe>>

\* a built Action called directly with data
Invoke(j, data, hb) ==
  /\ j \in 1..Len(built)
  /\ probe' = [act |-> j, input |-> data,
               result |-> Built_call(heap, built[j], data, hb)]
  /\ UNCHANGED <<hookVars, heap, born, built>>

InitBuilder ==
  /\ InitHook({Fn})
  /\ \E class \in {"SafeAction", "ReactSafeAction"} : InitBuilders(class)

NextBuilder ==
  \/ \E i \in 1..MaxBuilders, s \in Schemas : DeriveSchema(i, s)
  \/ \E i \in 1..MaxBuilders : BuildAction(i)
  \/ \E j \in 1..MaxBuilt, data \in Inputs, hb \in HandlerBehaviours :
       Invoke(j, data, hb)

SpecBuilder == InitBuilder /\ [][NextBuilder]_vars

\* ------------------------------------------------------------ properties
\* the most recent step ran an execute call to its end
Finishing == last.op \in {"execute", "settle"} /\ pc[last.call] # "awaiting"

\* execute call c has run to its end
Done(c) == pc[c] \in {"resolved", "rejected"}

\* call b completed before call a, which completed in the most recent step
CompletedBefore(b, a) == Finishing /\ last.call = a /\ b # a /\ Done(b)

\* a plain map / the request value has at least one entry
PopulatedMap(m) == m # {}
PopulatedValue(v) == v.tag \in {"object", "Error"} /\ v.own # {}

\* C1: the completion returned by execute never rejects, whatever the
\* action and the callbacks do.
C1_ExecuteNeverRejects == \A c \in Calls : pc[c] # "rejected"

\* C2: once the action called by execute has settled, the call has written
\* success or error and the status is not left at idle or executing.
C2_LandsOnSuccessOrError ==
  Finishing =>
    /\ wrote[last.call] \in {"success", "error"}
    /\ status \in {"success", "error"}

\* C3 (as claimed): when the second-started of two overlapping calls settles
\* before the first-started one, the final status is the second call's.
C3_SecondCallWins ==
  ( /\ CompletedBefore(2, 1)
    /\ \A c \in Calls : c > 2 => pc[c] = "new"
    /\ wrote[1] # "none" /\ wrote[2] # "none" )
  => status = wrote[2]

\* C3 (amended): when a later-started call b settled before an earlier-started
\* call a, the status after a completes is the last one a wrote: its success
\* or error, or, when its onError threw before that write, what a reset()
\* in the callback wrote or else the status a found.
C3_LastWriterWins ==
  \A a, b \in Calls :
    ( a < b /\ CompletedBefore(b, a) )
    => /\ status = IF last.writes # <<>> THEN last.writes[Len(last.writes)]
                     ELSE last.before
       /\ wrote[a] # "none" => status = wrote[a]
       /\ wrote[a] = IF last.escaped THEN "none"
                     ELSE IF last.caught THEN "error" ELSE "success"

C3_Witness ==
  /\ CompletedBefore(2, 1)
  /\ wrote[2] = "success" /\ wrote[1] = "error" /\ status = "error"

\* C4: after all started calls have settled, the status is the outcome of
\* the call that settled last, and that call fired its callback.
C4_LastSettledDecides ==
  ( /\ Finishing /\ \E c \in Calls : CompletedBefore(c, last.call)
    /\ \A c \in Calls : pc[c] # "awaiting" )
  => /\ status = IF last.caught THEN "error" ELSE "success"
     /\ (callback.onSuccess /\ ~last.caught) => last.onSuccessArgs # <<>>
     /\ (callback.onError /\ last.caught) => last.onErrorArgs # <<>>

\* the Action was built with a contract, and what the contract says of the
\* payload of the execute call of the most recent step
HasContract == action.this._schema # NullSchema
Parsed == SafeParse(action.this._schema, last.input)

\* C5: an input the contract rejects never reaches the handler; the Action
\* throws, before returning, a ZodError whose issues are exactly the
\* contract's (same paths, same messages, same order).
C5_RejectedInputNeverReachesHandler ==
  (last.op = "execute" /\ HasContract /\ ~Parsed.success)
  => /\ last.invoked = <<>>
     /\ last.raisedBy = "contract"
     /\ last.raised.tag = "ZodError"
     /\ last.raised.issues = SchemaIssues(action.this._schema, last.input)
     /\ pc[last.call] # "awaiting"

C5_Witness ==
  /\ last.op = "execute" /\ HasContract /\ ~Parsed.success
  /\ Len(last.raised.issues) = 3 /\ last.invoked = <<>>

\* C6: an input the contract accepts reaches the handler exactly once, as
\* the value the contract parsed (not the raw input).
C6_HandlerGetsParsedValue ==
  (last.op = "execute" /\ HasContract /\ Parsed.success)
  => last.invoked = <<Parsed.data>>

\* C7: an Action built without a contract is the handler itself: every
\* input reaches the handler unchanged and nothing is thrown by validation.
C7_NoContractForwards ==
  ~HasContract
  => /\ action = Fn
     /\ last.op = "execute"
        => /\ last.invoked = <<last.input>>
           /\ last.raisedBy # "contract"

C7_Witness ==
  /\ ~HasContract /\ last.op = "execute"
  /\ last.input.email \notin ValidEmails /\ last.input.password = "short"
  /\ last.invoked = <<last.input>> /\ last.raisedBy = "none"

\* C8 (as claimed): in the error handed to onError exactly one of
\* validation and request is populated.
C8_ExactlyOnePopulated ==
  \A i \in 1..Len(last.onErrorArgs) :
    PopulatedMap(last.onErrorArgs[i].error.validation)
      # PopulatedValue(last.onErrorArgs[i].error.request)

\* C8 (amended): at most one of the two is populated.  For a ZodError,
\* request is the empty map and validation has one key per issue path; for
\* any other failure validation is empty and request is the message with
\* the failure's enumerable fields when the message is non-empty, and the
\* failure itself (possibly undefined, null, a string, an empty object)
\* otherwise.
C8_AtMostOnePopulated ==
  \A i \in 1..Len(last.onErrorArgs) :
    LET e == last.onErrorArgs[i].error
        f == last.failure
    IN /\ ~(PopulatedMap(e.validation) /\ PopulatedValue(e.request))
       /\ f.tag = "ZodError"
          => /\ e.request = EmptyObject
             /\ MapKeys(e.validation) =
                  {Join(f.issues[j].path) : j \in 1..Len(f.issues)}
       /\ f.tag # "ZodError"
          => /\ e.validation = {}
             /\ Truthy(GetMessage(f))
                => /\ e.request.tag = "object"
                   /\ <<"message", GetMessage(f)>> \in e.request.own
                   /\ f.own \subseteq e.request.own
             /\ ~Truthy(GetMessage(f)) => e.request = f

C8_Witness ==
  /\ last.onErrorArgs # <<>>
  /\ last.failure = Undefined
  /\ last.onErrorArgs[1].error = [request |-> Undefined, validation |-> {}]

\* C9: every path/message pair of a validation failure is in
\* error.validation under its dotted path, error.request is empty and the
\* status ends error.
C9_EveryIssueKept ==
  (Finishing /\ last.failure.tag = "ZodError" /\ ~last.escaped)
  => /\ \A i \in 1..Len(last.onErrorArgs) :
          /\ \A j \in 1..Len(last.failure.issues) :
                <<Join(last.failure.issues[j].path), last.failure.issues[j].message>>
                  \in last.onErrorArgs[i].error.validation
          /\ last.onErrorArgs[i].error.request = EmptyObject
     /\ status = "error"

\* C10: a failure that is not a validation failure and has a message
\* reaches onError as request.message plus its enumerable fields, with an
\* empty validation, and the status ends error.
C10_MessageInRequest ==
  (Finishing /\ last.caught /\ last.failure.tag # "ZodError"
     /\ Truthy(GetMessage(last.failure)))
  => /\ \A i \in 1..Len(last.onErrorArgs) :
          /\ MapGet(last.onErrorArgs[i].error.request.own, "message")
               = GetMessage(last.failure)
          /\ last.failure.own \subseteq last.onErrorArgs[i].error.request.own
          /\ last.onErrorArgs[i].error.validation = {}
     /\ status = "error"


\* the most recent step resumed an execute call whose action resolved
Resolved == last.op = "settle" /\ last.settled = "resolved"

\* C11 (as claimed): when the action resolves, onSuccess (if supplied) gets
\* the output and the status the call writes is success, never error.
C11_ResolvedWritesSuccess ==
  (Resolved /\ ~last.escaped)
  => /\ callback.onSuccess => last.onSuccessArgs = <<last.value>>
     /\ wrote[last.call] = "success"

\* C11 (amended): when the action resolves, onSuccess (if supplied) is called
\* once with the output.  The call writes success when onSuccess is absent
\* or returns; when onSuccess throws, what it threw goes through the catch
\* block: onError is called and the call writes error, or nothing when
\* onError throws too.
C11_ResolvedCallsOnSuccess ==
  Resolved
  => /\ last.onSuccessArgs = IF callback.onSuccess THEN <<last.value>> ELSE <<>>
     /\ ~last.caught
        => /\ wrote[last.call] = "success" /\ status = "success"
           /\ last.onErrorArgs = <<>>
     /\ last.caught
        => /\ callback.onSuccess /\ last.failure = CallbackError
           /\ wrote[last.call] = IF last.escaped THEN "none" ELSE "error"
           /\ callback.onError => Len(last.onErrorArgs) = 1

C11_Witness ==
  /\ Resolved /\ callback.onSuccess /\ last.value \in Outputs
  /\ last.onSuccessArgs = <<last.value>> /\ status = "success"


\* C12: reset sets the status to idle from every state (idle included), and
\* a call that was in flight when reset ran still settles, fires its
\* callback and writes success or error over the idle status.
C12_ResetThenCallCompletes ==
  /\ last.op = "reset" => status = "idle"
  /\ (last.op = "settle" /\ last.before = "idle")
     => /\ status \in {"success", "error"}
        /\ (callback.onSuccess /\ ~last.caught) => last.onSuccessArgs # <<>>
        /\ (callback.onError /\ last.caught) => last.onErrorArgs # <<>>


\* some execute call is suspended at `await action(payload)`
Suspended == \E c \in Calls : pc[c] = "awaiting"

\* C13 (as claimed): while any execute call is suspended the status is
\* executing and loading is true.
C13_ExecutingWhileSuspended == Suspended => (status = "executing" /\ loading)

\* C13 (amended): a call that suspends leaves the status executing and
\* loading true; while a call is suspended the status is something else
\* only after a reset or after another execute call ran to its end; loading
\* is true exactly when the status is executing.
C13_ExecutingUntilOverwritten ==
  /\ (last.op = "execute" /\ pc[last.call] = "awaiting")
     => (status = "executing" /\ loading)
  /\ (Suspended /\ status # "executing") => (last.op = "reset" \/ Finishing)
  /\ loading <=> status = "executing"

C13_Witness ==
  /\ Suspended /\ last.op = "reset" /\ status = "idle" /\ ~loading


\* what an Action built from a builder constructed with schema sch does
\* with data: no validation without a schema, the schema's verdict with one
ValidatesWith(sch, data, result) ==
  IF sch = NullSchema
  THEN result.invoked = <<data>> /\ result.by # "contract"
  ELSE IF SafeParse(sch, data).success
       THEN result.invoked = <<data>> /\ result.by # "contract"
       ELSE /\ result.invoked = <<>> /\ result.by = "contract"
            /\ result.error = SafeParse(sch, data).error

\* C14: schema(contract) makes a new builder and leaves the receiver as it
\* was: every builder keeps the schema it was constructed with, Actions
\* built from the base builder do not validate, and every built Action
\* validates with the schema of its own builder, whenever it is called.
C14_BuildersImmutable ==
  /\ Len(born) = Len(heap)
  /\ \A r \in 1..Len(heap) : heap[r]._schema = born[r]
  /\ born[1] = NullSchema
  /\ \A j \in 1..Len(built) : built[j].this = 1 => built[j].action = Fn
  /\ probe.act # 0
     => ValidatesWith(born[built[probe.act].this], probe.input, probe.result)

C14_Witness ==
  /\ Len(heap) = 3 /\ heap[2]._schema # heap[3]._schema
  /\ probe.act # 0 /\ built[probe.act].this = 1
  /\ probe.input.email \notin ValidEmails
  /\ probe.result.invoked = <<probe.input>>


\* call c was suspended before the most recent step and still is
PendingThrough(c) == pc[c] = "awaiting" /\ last.call # c

\* the most recent step moved the status out of executing
LeftExecuting == last.before = "executing" /\ status # "executing"

\* C15 (as claimed): while a call is pending on a handler that has not
\* settled, the status leaves executing only by a reset.
C15_OnlyResetLeavesExecuting ==
  \A c \in Calls :
    (PendingThrough(c) /\ LeftExecuting)
    => (last.writes # <<>> /\ last.writes[Len(last.writes)] = "idle")

\* C15 (amended): while a call is pending the pending call itself writes
\* nothing: the status leaves executing only by a reset or by another
\* execute call running to its end, and a further execute call that
\* suspends leaves it executing.
C15_PendingCallWritesNothing ==
  \A c \in Calls :
    PendingThrough(c)
    => /\ LeftExecuting => (last.op = "reset" \/ Finishing)
       /\ (last.op = "execute" /\ ~Finishing) => status = "executing"
       /\ wrote[c] = "none"

C15_Witness ==
  /\ PendingThrough(1) /\ LeftExecuting
  /\ last.op = "settle" /\ last.call = 2 /\ status = "success"

\* C16: the object useAction returns has a result field holding what the
\* action returned, readable after a successful execute.
C16_ReturnExposesResult ==
  (Resolved /\ ~last.caught)
  => /\ "result" \in DOMAIN useActionReturn
     /\ useActionReturn.result = last.value

\* C17: every execute call writes executing first, whatever the status was,
\* and then calls the Action; an input the contract rejects gives the
\* status sequence executing ... error with the handler never called.
C17_ExecutingThenError ==
  last.op = "execute"
  => /\ last.writes[1] = "executing"
     /\ (HasContract /\ ~Parsed.success)
        => /\ last.invoked = <<>>
           /\ last.writes[Len(last.writes)] = "error"
           /\ status = "error"

\* C18: onError gets the input of the execute call whose failure it
\* reports, unchanged, also when another call with another input is
\* suspended; a suspended call keeps its own input.
C18_OnErrorGetsOwnInput ==
  /\ \A i \in 1..Len(last.onErrorArgs) : last.onErrorArgs[i].input = last.input
  /\ (Finishing /\ last.caught /\ callback.onError) => Len(last.onErrorArgs) = 1
  /\ (last.op = "execute" /\ ~Finishing) => payload[last.call] = last.input

C18_Witness ==
  /\ last.op = "settle" /\ last.onErrorArgs # <<>>
  /\ last.input.extra /\ last.onErrorArgs[1].input = last.input
  /\ \E d \in Calls : PendingThrough(d) /\ payload[d] # last.input

\* C19 (as claimed): with both callbacks supplied, a call that runs to its
\* end calls exactly one of them.
C19_ExactlyOneCallback ==
  (Finishing /\ callback.onSuccess /\ callback.onError)
  => (last.onSuccessArgs # <<>>) # (last.onErrorArgs # <<>>)

\* C19 (amended): with both callbacks supplied, each is called at most
\* once; onSuccess is called exactly when the action resolved, onError
\* exactly when the catch block ran, and both are called exactly when
\* onSuccess threw, onError then getting what onSuccess threw.
C19_BothOnlyWhenOnSuccessThrows ==
  (Finishing /\ callback.onSuccess /\ callback.onError)
  => /\ Len(last.onSuccessArgs) <= 1 /\ Len(last.onErrorArgs) <= 1
     /\ last.onSuccessArgs # <<>> <=> Resolved
     /\ last.onErrorArgs # <<>> <=> last.caught
     /\ (last.onSuccessArgs # <<>> /\ last.onErrorArgs # <<>>)
        <=> (Resolved /\ last.failure = CallbackError)
     /\ last.onSuccessArgs # <<>> \/ last.onErrorArgs # <<>>

C19_Witness ==
  /\ Finishing /\ callback.onSuccess /\ callback.onError
  /\ last.onSuccessArgs = <<last.value>>
  /\ Len(last.onErrorArgs) = 1
  /\ last.onErrorArgs[1].error.request =
       Obj({<<"message", GetMessage(CallbackError)>>})

\* C20: the callback runs before the call's final status write, so a
\* reset() made inside the callback is overwritten: after the call the
\* status is success or error, not idle.
C20_ResetInCallbackOverwritten ==
  (Finishing /\ \E i \in 1..Len(last.writes) : last.writes[i] = "idle")
  => /\ last.writes[Len(last.writes)] \in {"success", "error"}
     /\ status \in {"success", "error"}

====
